---- MODULE Spec2Model ----
(* Formation-energy lines of charged point defects, their lower envelope   *)
(* and the quantities derived from it (pydefect/analyzer/defect_energy.py). *)
(* Python floats are modelled as exact rationals <<n, d>> (d > 0, lowest   *)
(* terms); float("inf") and float("-inf") are <<1, 0>> and <<-1, 0>>.      *)
(* None is the empty tuple and a present optional value x is <<x>>.        *)
EXTENDS Integers, Sequences, FiniteSets, TLC

VARIABLES
    charge_energies_dict, \* ChargeEnergies.charge_energies_dict, in insertion order
    e_min,                \* ChargeEnergies.e_min
    e_max,                \* ChargeEnergies.e_max
    cross_point_dicts,    \* ChargeEnergies.cross_point_dicts, in insertion order
    pc,                   \* "new": fields assigned; "ready": __post_init__ returned
    op,                   \* the last method called
    arg,                  \* its arguments
    ret,                  \* its return value (<<>> when it raised)
    exc,                  \* the exception it raised ("" when it returned)
    summary,              \* the DefectEnergySummary the aggregate is built from, or None
    parse_frame           \* the local variables of a running parse_dirs call, or None

vars == <<charge_energies_dict, e_min, e_max, cross_point_dicts, pc, op, arg, ret, exc,
          summary, parse_frame>>

(***************************************************************************)
(* Bounds of the model and the inputs drawn in Init.                       *)
(***************************************************************************)
MaxLines == 3

Charges == {-1, 0, 1, 2}

Energies == {-4, 3, 6}

(***************************************************************************)
(* Exact arithmetic standing for float arithmetic.                         *)
(***************************************************************************)
None == <<>>

Some(x) == <<x>>

Abs(x) == IF x < 0 THEN -x ELSE x

RECURSIVE GCD(_, _)
GCD(a, b) == IF b = 0 THEN a ELSE GCD(b, a % b)

Norm(n, d) ==
    LET g == GCD(Abs(n), Abs(d))
        s == IF d < 0 THEN -1 ELSE 1
    IN  <<s * (n \div g), s * (d \div g)>>

R(i) == <<i, 1>>

PosInf == <<1, 0>>

NegInf == <<-1, 0>>

IsFinite(a) == a[2] # 0

LCM(a, b) == (a \div GCD(a, b)) * b

RNeg(a) == <<-a[1], a[2]>>

RAdd(a, b) ==
    LET l == LCM(a[2], b[2])
    IN  Norm(a[1] * (l \div a[2]) + b[1] * (l \div b[2]), l)

RSub(a, b) == RAdd(a, RNeg(b))

RMul(a, b) ==
    LET g1 == GCD(Abs(a[1]), b[2])
        g2 == GCD(Abs(b[1]), a[2])
    IN  Norm((a[1] \div g1) * (b[1] \div g2), (a[2] \div g2) * (b[2] \div g1))

\* a / b for finite a and finite non-zero b
RDiv(a, b) ==
    LET s == IF b[1] < 0 THEN -1 ELSE 1
    IN  RMul(a, <<s * b[2], s * b[1]>>)

RLess(a, b) ==
    IF IsFinite(a) /\ IsFinite(b)
    THEN LET l == LCM(a[2], b[2])
         IN  a[1] * (l \div a[2]) < b[1] * (l \div b[2])
    ELSE (a = NegInf /\ b # NegInf) \/ (b = PosInf /\ a # PosInf)

RLeq(a, b) == a = b \/ RLess(a, b)

RMin(S) == CHOOSE x \in S : \A y \in S : RLeq(x, y)

RMax(S) == CHOOSE x \in S : \A y \in S : RLeq(y, x)

(***************************************************************************)
(* SingleChargeEnergies: charge_energies is a sequence of <<charge, energy>> *)
(***************************************************************************)
\* itertools.combinations(range(1, n + 1), 2), as index pairs in emission order
combinations(n) == {p \in (1..n) \X (1..n) : p[1] < p[2]}

\* transition_levels without the leading minus sign
transition_levels_no_negation(ce) ==
    IF \E p \in combinations(Len(ce)) : ce[p[1]][1] = ce[p[2]][1]
    THEN [exc |-> "ZeroDivisionError", ret |-> None]
    ELSE [exc |-> "",
          ret |-> [k \in {<<ce[p[1]][1], ce[p[2]][1]>> : p \in combinations(Len(ce))} |->
                    LET p == CHOOSE p \in combinations(Len(ce)) :
                                 <<ce[p[1]][1], ce[p[2]][1]>> = k
                    IN  RDiv(RSub(ce[p[1]][2], ce[p[2]][2]),
                             R(ce[p[1]][1] - ce[p[2]][1]))]]

\* result[(c1, c2)] = - (e1 - e2) / (c1 - c2) for every combination; with
\* pairwise distinct charges no key is written twice
transition_levels(ce) ==
    IF \E p \in combinations(Len(ce)) : ce[p[1]][1] = ce[p[2]][1]
    THEN [exc |-> "ZeroDivisionError", ret |-> None]
    ELSE [exc |-> "",
          ret |-> [k \in {<<ce[p[1]][1], ce[p[2]][1]>> : p \in combinations(Len(ce))} |->
                    LET p == CHOOSE p \in combinations(Len(ce)) :
                                 <<ce[p[1]][1], ce[p[2]][1]>> = k
                    IN  RDiv(RNeg(RSub(ce[p[1]][2], ce[p[2]][2])),
                             R(ce[p[1]][1] - ce[p[2]][1]))]]

\* one iteration of the loop of pinning_level over (charge, energy); st is
\* <<lower_pinning, lower_charge, upper_pinning, upper_charge>>
pinning_step(st, charge, energy) ==
    IF charge = 0 THEN st
    ELSE LET pinning == RDiv(RNeg(energy), R(charge))
         IN  IF charge > 0 /\ RLess(st[1], pinning)
             THEN <<pinning, Some(charge), st[3], st[4]>>
             ELSE IF RLess(pinning, st[3])
                  THEN <<st[1], st[2], pinning, Some(charge)>>
                  ELSE st

RECURSIVE pinning_loop(_, _, _)
pinning_loop(ce, i, st) ==
    IF i > Len(ce) THEN st
    ELSE pinning_loop(ce, i + 1, pinning_step(st, ce[i][1], ce[i][2]))

\* pinning_level without the comparison of lower_pinning with e_min
pinning_level_no_e_min(ce, lo, hi) ==
    LET st == pinning_loop(ce, 1, <<NegInf, None, PosInf, None>>)
        lower == IF st[2] = None THEN None ELSE <<st[1], st[2]>>
        upper == IF st[4] = None \/ RLess(hi, st[3]) THEN None ELSE <<st[1], st[2]>>
    IN  <<lower, upper>>

\* pinning_level(e_min, e_max) -> (lower, upper)
pinning_level(ce, lo, hi) ==
    LET st == pinning_loop(ce, 1, <<NegInf, None, PosInf, None>>)
        lower == IF st[2] = None \/ RLess(st[1], lo) THEN None ELSE <<st[1], st[2]>>
        upper == IF st[4] = None \/ RLess(hi, st[3]) THEN None ELSE <<st[1], st[2]>>
    IN  <<lower, upper>>

RECURSIVE energy_at_ef_loop(_, _, _, _)
energy_at_ef_loop(ce, ef, i, res) ==
    IF i > Len(ce) THEN res
    ELSE LET energy == RAdd(ce[i][2], RMul(R(ce[i][1]), ef))
         IN  energy_at_ef_loop(ce, ef, i + 1,
                 IF RLess(energy, res[1]) THEN <<energy, Some(ce[i][1])>> ELSE res)

\* energy_at_ef comparing the energies at ef = 0
energy_at_ef_no_fermi_term(ce, ef) ==
    LET RECURSIVE loop(_, _)
        loop(i, res) ==
            IF i > Len(ce) THEN res
            ELSE loop(i + 1, IF RLess(ce[i][2], res[1])
                             THEN <<ce[i][2], Some(ce[i][1])>> ELSE res)
    IN  loop(1, <<PosInf, None>>)

\* energy_at_ef with energy <= result_e: the last minimal line wins
energy_at_ef_last_wins(ce, ef) ==
    LET RECURSIVE loop(_, _)
        loop(i, res) ==
            IF i > Len(ce) THEN res
            ELSE LET energy == RAdd(ce[i][2], RMul(R(ce[i][1]), ef))
                 IN  loop(i + 1, IF RLeq(energy, res[1])
                                 THEN <<energy, Some(ce[i][1])>> ELSE res)
    IN  loop(1, <<PosInf, None>>)

\* energy_at_ef(ef) -> (lowest energy, its charge)
energy_at_ef(ce, ef) == energy_at_ef_loop(ce, ef, 1, <<PosInf, None>>)

(***************************************************************************)
(* The SingleChargeEnergies objects a caller can build and the calls it    *)
(* can make on one of them.                                                *)
(***************************************************************************)
DistinctCharges(ce) == \A i, j \in 1..Len(ce) : i # j => ce[i][1] # ce[j][1]

LineSeqs ==
    {[i \in 1..Len(s) |-> <<s[i][1], R(s[i][2])>>] :
        s \in {s \in UNION {[1..n -> Charges \X Energies] : n \in 1..MaxLines} :
                 DistinctCharges(s)}}

EfArgs == {R(0), R(3), R(5), R(10)}

BaseShifts == {<<1, 10>>, R(1)}

PinningArgs == {<<NegInf, PosInf>>, <<R(1), R(6)>>, <<R(3), R(5)>>}

Names == <<"A", "B">>

SCE(name) ==
    LET i == CHOOSE i \in 1..Len(charge_energies_dict) :
                 charge_energies_dict[i].name = name
    IN  charge_energies_dict[i].ce

DefectNames == {charge_energies_dict[i].name : i \in 1..Len(charge_energies_dict)}

InitSCE ==
    /\ \E ce \in LineSeqs : charge_energies_dict = <<[name |-> Names[1], ce |-> ce]>>
    /\ e_min = R(1)
    /\ e_max = R(6)
    /\ cross_point_dicts = <<>>
    /\ pc = "new"
    /\ op = ""
    /\ arg = <<>>
    /\ ret = None
    /\ exc = ""
    /\ summary = None
    /\ parse_frame = None

Unchanged ==
    UNCHANGED <<charge_energies_dict, e_min, e_max, cross_point_dicts, pc, summary,
                parse_frame>>

\* sce.transition_levels (a property)
TransitionLevels ==
    \E name \in DefectNames :
        /\ op' = "transition_levels"
        /\ arg' = <<name>>
        /\ ret' = transition_levels(SCE(name)).ret
        /\ exc' = transition_levels(SCE(name)).exc
        /\ Unchanged

\* sce.transition_levels(base_e=b): the property's value is a dict, and a
\* dict is not callable
TransitionLevelsBaseE ==
    \E name \in DefectNames, b \in BaseShifts :
        /\ op' = "transition_levels"
        /\ arg' = <<name, b>>
        /\ ret' = None
        /\ exc' = IF transition_levels(SCE(name)).exc = ""
                  THEN "TypeError" ELSE transition_levels(SCE(name)).exc
        /\ Unchanged

\* sce.pinning_level(lo, hi)
PinningLevel ==
    \E name \in DefectNames, a \in PinningArgs :
        /\ op' = "pinning_level"
        /\ arg' = <<name, a[1], a[2]>>
        /\ ret' = pinning_level(SCE(name), a[1], a[2])
        /\ exc' = ""
        /\ Unchanged

\* sce.pinning_level(lo, hi, base_e=b): pinning_level takes e_min and e_max only
PinningLevelBaseE ==
    \E name \in DefectNames, a \in PinningArgs, b \in BaseShifts :
        /\ op' = "pinning_level"
        /\ arg' = <<name, a[1], a[2], b>>
        /\ ret' = None
        /\ exc' = "TypeError"
        /\ Unchanged

\* sce.energy_at_ef(ef)
EnergyAtEf ==
    \E name \in DefectNames, ef \in EfArgs :
        /\ op' = "energy_at_ef"
        /\ arg' = <<name, ef>>
        /\ ret' = energy_at_ef(SCE(name), ef)
        /\ exc' = ""
        /\ Unchanged

NextSCE ==
    \/ TransitionLevels
    \/ TransitionLevelsBaseE
    \/ PinningLevel
    \/ PinningLevelBaseE
    \/ EnergyAtEf

SpecSCE == InitSCE /\ [][NextSCE]_vars

(***************************************************************************)
(* np.round(x, 8) and round(x): round half to even.                        *)
(***************************************************************************)
Decimals == 8

RECURSIVE Pow10(_)
Pow10(k) == IF k = 0 THEN 1 ELSE 10 * Pow10(k - 1)

\* n / d (d > 0) rounded to the nearest integer, halves to even
RoundHalfEven(n, d) ==
    LET q == n \div d
        r == n % d
    IN  IF 2 * r < d THEN q
        ELSE IF 2 * r > d THEN q + 1
        ELSE IF q % 2 = 0 THEN q ELSE q + 1

\* the fraction f / d (0 <= f < d) in units of 10^-Decimals, rounded; the
\* digits are produced in two halves to keep the products small
RoundFraction(f, d) ==
    LET h  == Pow10(Decimals \div 2)
        hi == (f * h) \div d
        lo == (f * h) % d
    IN  hi * Pow10(Decimals - Decimals \div 2)
          + RoundHalfEven(lo * Pow10(Decimals - Decimals \div 2), d)

np_round(a) ==
    IF Pow10(Decimals) % a[2] = 0 THEN a
    ELSE RAdd(R(a[1] \div a[2]), Norm(RoundFraction(a[1] % a[2], a[2]), Pow10(Decimals)))

py_round(a) == RoundHalfEven(a[1], a[2])

(***************************************************************************)
(* scipy.spatial.HalfspaceIntersection in two dimensions: a half-space     *)
(* <<a, b, c>> is a*x + b*y + c <= 0 (a, b integers, c a float); the       *)
(* intersections are the vertices of the region.                           *)
(***************************************************************************)
Det(g, h) == g[1] * h[2] - h[1] * g[2]

\* the point where the boundary lines of g and h meet (Det(g, h) # 0)
Meet(g, h) ==
    <<RDiv(RSub(RMul(R(g[2]), h[3]), RMul(R(h[2]), g[3])), R(Det(g, h))),
      RDiv(RSub(RMul(R(h[1]), g[3]), RMul(R(g[1]), h[3])), R(Det(g, h)))>>

Slack(h, pt) == RAdd(RAdd(RMul(R(h[1]), pt[1]), RMul(R(h[2]), pt[2])), h[3])

Inside(h, pt) == RLeq(Slack(h, pt), R(0))

StrictlyInside(h, pt) == RLess(Slack(h, pt), R(0))

Range(seq) == {seq[i] : i \in 1..Len(seq)}

Vertices(hs) ==
    {Meet(p[1], p[2]) : p \in {p \in hs \X hs : Det(p[1], p[2]) > 0}}

PointLess(p, q) == RLess(p[1], q[1]) \/ (p[1] = q[1] /\ RLess(p[2], q[2]))

RECURSIVE Ascending(_)
Ascending(S) ==
    IF S = {} THEN <<>>
    ELSE LET m == CHOOSE p \in S : \A q \in S : p = q \/ PointLess(p, q)
         IN  <<m>> \o Ascending(S \ {m})

Reverse(seq) == [i \in 1..Len(seq) |-> seq[Len(seq) + 1 - i]]

\* the library does not specify the order of its intersections
Orders == {"ascending", "descending"}

HalfspaceIntersection(half_spaces, feasible_point, order) ==
    LET hs == Range(half_spaces)
    IN  IF \E h \in hs : ~StrictlyInside(h, feasible_point)
        THEN [exc |-> "QhullError", intersections |-> <<>>]
        ELSE LET v == Ascending({pt \in Vertices(hs) : \A h \in hs : Inside(h, pt)})
             IN  [exc |-> "",
                  intersections |-> IF order = "ascending" THEN v ELSE Reverse(v)]

(***************************************************************************)
(* ChargeEnergies.__post_init__                                            *)
(***************************************************************************)
large_minus_number == -10000

RECURSIVE line_half_spaces(_, _)
line_half_spaces(ce, i) ==
    IF i > Len(ce) THEN <<>>
    ELSE <<<<-ce[i][1], 1, RNeg(ce[i][2])>>>> \o line_half_spaces(ce, i + 1)

domain_half_spaces(lo, hi) ==
    <<<<-1, 0, lo>>, <<1, 0, RNeg(hi)>>, <<0, -1, R(large_minus_number)>>>>

\* the loop over hs.intersections: [inner_cross_points, boundary_points]
RECURSIVE classify(_, _, _, _, _)
classify(points, i, lo, hi, cp) ==
    IF i > Len(points) THEN cp
    ELSE LET x == np_round(points[i][1])
             y == np_round(points[i][2])
         IN  classify(points, i + 1, lo, hi,
                 IF RLess(RAdd(lo, <<1, 1000>>), x) /\ RLess(x, RSub(hi, <<1, 1000>>))
                 THEN [cp EXCEPT !.inner_cross_points = Append(@, <<x, y>>)]
                 ELSE IF RLess(R(large_minus_number + 1), y)
                      THEN [cp EXCEPT !.boundary_points = Append(@, <<x, y>>)]
                      ELSE cp)

EmptyCrossPoints == [inner_cross_points |-> <<>>, boundary_points |-> <<>>]

\* the loop over charge_energies_dict.items() from entry i on; half_spaces
\* is the list as the previous iterations left it
RECURSIVE post_init_loop(_, _, _, _, _, _)
post_init_loop(dict, lo, hi, order, i, st) ==
    IF i > Len(dict) \/ st.exc # "" THEN st
    ELSE LET half_spaces == st.half_spaces \o line_half_spaces(dict[i].ce, 1)
                                \o domain_half_spaces(lo, hi)
             feasible_point == <<RDiv(RAdd(lo, hi), R(2)), R(-1000)>>
             hs == HalfspaceIntersection(half_spaces, feasible_point, order)
         IN  post_init_loop(dict, lo, hi, order, i + 1,
                 [half_spaces |-> half_spaces,
                  exc |-> hs.exc,
                  cross_point_dicts |->
                      IF hs.exc # "" THEN st.cross_point_dicts
                      ELSE [n \in DOMAIN st.cross_point_dicts \cup {dict[i].name} |->
                              IF n = dict[i].name
                              THEN classify(hs.intersections, 1, lo, hi, EmptyCrossPoints)
                              ELSE st.cross_point_dicts[n]]])

post_init(dict, lo, hi, order) ==
    post_init_loop(dict, lo, hi, order, 1,
                   [half_spaces |-> <<>>, exc |-> "", cross_point_dicts |-> <<>>])

(***************************************************************************)
(* CrossPoints                                                             *)
(***************************************************************************)
\* sorted(seq, key=lambda v: v[0]): a stable insertion sort
RECURSIVE sorted_by_ef(_)
sorted_by_ef(seq) ==
    IF seq = <<>> THEN <<>>
    ELSE LET rest == sorted_by_ef(SubSeq(seq, 1, Len(seq) - 1))
             v    == seq[Len(seq)]
             k    == Cardinality({j \in 1..Len(rest) : RLeq(rest[j][1], v[1])})
         IN  SubSeq(rest, 1, k) \o <<v>> \o SubSeq(rest, k + 1, Len(rest))

\* all_sorted_points with the energy as the sort key
all_sorted_points_by_energy(cp) ==
    LET flip(seq) == [i \in 1..Len(seq) |-> <<seq[i][2], seq[i][1]>>]
    IN  flip(sorted_by_ef(flip(cp.boundary_points \o cp.inner_cross_points)))

\* all_sorted_points without the sort
all_sorted_points_unsorted(cp) == cp.boundary_points \o cp.inner_cross_points

all_sorted_points(cp) == sorted_by_ef(cp.boundary_points \o cp.inner_cross_points)

\* charges rounding a slope halfway between two integers upwards
charges_round_half_up(cp) ==
    LET pts == all_sorted_points(cp)
    IN  IF \E i \in 1..(Len(pts) - 1) : pts[i + 1][1] = pts[i][1]
        THEN [exc |-> "ZeroDivisionError", ret |-> <<>>]
        ELSE [exc |-> "",
              ret |-> [i \in 1..(Len(pts) - 1) |->
                        LET a == RDiv(RSub(pts[i + 1][2], pts[i][2]),
                                      RSub(pts[i + 1][1], pts[i][1]))
                        IN  (2 * a[1] + a[2]) \div (2 * a[2])]]

charges(cp) ==
    LET pts == all_sorted_points(cp)
    IN  IF \E i \in 1..(Len(pts) - 1) : pts[i + 1][1] = pts[i][1]
        THEN [exc |-> "ZeroDivisionError", ret |-> <<>>]
        ELSE [exc |-> "",
              ret |-> [i \in 1..(Len(pts) - 1) |->
                        py_round(RDiv(RSub(pts[i + 1][2], pts[i][2]),
                                      RSub(pts[i + 1][1], pts[i][1])))]]

\* np.transpose(np.array(self.all_sorted_points)).tolist()
t_all_sorted_points(cp) ==
    LET pts == all_sorted_points(cp)
    IN  IF pts = <<>> THEN <<>>
        ELSE <<[i \in 1..Len(pts) |-> pts[i][1]], [i \in 1..Len(pts) |-> pts[i][2]]>>

\* list(zip(charges[:-1], charges[1:])) with charges = [None] + self.charges + [None]
charge_list(cp) ==
    LET ch == charges(cp)
        padded == <<None>> \o [i \in 1..Len(ch.ret) |-> Some(ch.ret[i])] \o <<None>>
    IN  IF ch.exc # "" THEN ch
        ELSE [exc |-> "",
              ret |-> [i \in 1..(Len(padded) - 1) |-> <<padded[i], padded[i + 1]>>]]

\* annotated_charge_positions keeping the first segment of a charge
annotated_charge_positions_first(cp) ==
    LET pts == all_sorted_points(cp)
        ch  == charges(cp)
    IN  IF ch.exc # "" THEN ch
        ELSE [exc |-> "",
              ret |-> [q \in Range(ch.ret) |->
                        LET i == CHOOSE i \in 1..Len(ch.ret) :
                                     ch.ret[i] = q /\ \A j \in 1..(i - 1) : ch.ret[j] # q
                        IN  <<RDiv(RAdd(pts[i][1], pts[i + 1][1]), R(2)),
                              RDiv(RAdd(pts[i][2], pts[i + 1][2]), R(2))>>]]

\* the loop of annotated_charge_positions over the first k segments:
\* result[charge] = [(x1 + x2) / 2, (y1 + y2) / 2]
RECURSIVE annotate(_, _, _)
annotate(pts, ch, k) ==
    IF k = 0 THEN <<>>
    ELSE LET result == annotate(pts, ch, k - 1)
         IN  [q \in DOMAIN result \cup {ch[k]} |->
                IF q = ch[k]
                THEN <<RDiv(RAdd(pts[k][1], pts[k + 1][1]), R(2)),
                       RDiv(RAdd(pts[k][2], pts[k + 1][2]), R(2))>>
                ELSE result[q]]

annotated_charge_positions(cp) ==
    LET ch == charges(cp)
    IN  IF ch.exc # "" THEN ch
        ELSE [exc |-> "", ret |-> annotate(all_sorted_points(cp), ch.ret, Len(ch.ret))]

(***************************************************************************)
(* The CrossPoints objects a caller can build and the properties it reads. *)
(***************************************************************************)
MaxInner == 2

Points ==
    {<<R(1), R(10)>>, <<R(2), R(30)>>, <<R(3), R(40)>>, <<R(4), R(40)>>,
     <<R(2), R(20)>>, <<R(3), R(27)>>}

CrossPointsObjects ==
    {[inner_cross_points |-> i, boundary_points |-> b] :
        i \in UNION {[1..n -> Points] : n \in 0..MaxInner},
        b \in UNION {[1..n -> Points] : n \in 0..2}}

TheCrossPoints == cross_point_dicts[Names[1]]

InitCP ==
    /\ charge_energies_dict = <<>>
    /\ e_min = R(1)
    /\ e_max = R(4)
    /\ \E cp \in CrossPointsObjects : cross_point_dicts = [n \in {Names[1]} |-> cp]
    /\ pc = "ready"
    /\ op = ""
    /\ arg = <<>>
    /\ ret = None
    /\ exc = ""
    /\ summary = None
    /\ parse_frame = None

AllSortedPoints ==
    /\ op' = "all_sorted_points"
    /\ arg' = <<>>
    /\ ret' = all_sorted_points(TheCrossPoints)
    /\ exc' = ""
    /\ Unchanged

TAllSortedPoints ==
    /\ op' = "t_all_sorted_points"
    /\ arg' = <<>>
    /\ ret' = t_all_sorted_points(TheCrossPoints)
    /\ exc' = ""
    /\ Unchanged

ChargesProperty ==
    /\ op' = "charges"
    /\ arg' = <<>>
    /\ ret' = charges(TheCrossPoints).ret
    /\ exc' = charges(TheCrossPoints).exc
    /\ Unchanged

ChargeList ==
    /\ op' = "charge_list"
    /\ arg' = <<>>
    /\ ret' = charge_list(TheCrossPoints).ret
    /\ exc' = charge_list(TheCrossPoints).exc
    /\ Unchanged

AnnotatedChargePositions ==
    /\ op' = "annotated_charge_positions"
    /\ arg' = <<>>
    /\ ret' = annotated_charge_positions(TheCrossPoints).ret
    /\ exc' = annotated_charge_positions(TheCrossPoints).exc
    /\ Unchanged

NextCP ==
    \/ AllSortedPoints
    \/ TAllSortedPoints
    \/ ChargesProperty
    \/ ChargeList
    \/ AnnotatedChargePositions

SpecCP == InitCP /\ [][NextCP]_vars

(***************************************************************************)
(* The aggregates a caller can build.                                      *)
(***************************************************************************)
MaxDefects == 2

Domains == {<<R(1), R(6)>>, <<R(0), R(3)>>}

TotalLines(dict) ==
    LET RECURSIVE sum(_)
        sum(i) == IF i = 0 THEN 0 ELSE Len(dict[i].ce) + sum(i - 1)
    IN  sum(Len(dict))

Dicts ==
    {d \in UNION {[1..k -> LineSeqs] : k \in 1..MaxDefects} : TotalLines([i \in DOMAIN d |-> [ce |-> d[i]]]) <= MaxLines}

Init ==
    /\ \E d \in Dicts :
           charge_energies_dict = [i \in 1..Len(d) |-> [name |-> Names[i], ce |-> d[i]]]
    /\ \E dom \in Domains : e_min = dom[1] /\ e_max = dom[2]
    /\ cross_point_dicts = <<>>
    /\ pc = "new"
    /\ op = ""
    /\ arg = <<>>
    /\ ret = None
    /\ exc = ""
    /\ summary = None
    /\ parse_frame = None

\* ChargeEnergies(charge_energies_dict, e_min, e_max): the dataclass runs
\* __post_init__ after assigning the fields
PostInit ==
    /\ pc = "new"
    /\ \E order \in Orders :
           \E r \in {post_init(charge_energies_dict, e_min, e_max, order)} :
               /\ cross_point_dicts' = r.cross_point_dicts
               /\ exc' = r.exc
               /\ pc' = IF r.exc = "" THEN "ready" ELSE "raised"
    /\ op' = "__post_init__"
    /\ UNCHANGED <<charge_energies_dict, e_min, e_max, arg, ret, summary, parse_frame>>

Next == PostInit

Spec == Init /\ [][Next]_vars

\* energy_range taking the candidates of the first defect only
energy_range_first_defect(dict, cpd, space) ==
    LET pts == all_sorted_points(cpd[dict[1].name])
        candidates == {pts[j][2] : j \in 1..Len(pts)}
    IN  IF pts = <<>> THEN [exc |-> "IndexError", ret |-> <<>>]
        ELSE [exc |-> "",
              ret |-> <<RSub(RMin(candidates), space), RAdd(RMax(candidates), space)>>]

\* candidates.extend(cp.t_all_sorted_points[1]) for every cp, then
\* [min(candidates) - space, max(candidates) + space]
energy_range(dict, cpd, space) ==
    LET candidates ==
            UNION {Range(t_all_sorted_points(cpd[dict[i].name])[2]) : i \in 1..Len(dict)}
    IN  IF \E i \in 1..Len(dict) : t_all_sorted_points(cpd[dict[i].name]) = <<>>
        THEN [exc |-> "IndexError", ret |-> <<>>]
        ELSE IF candidates = {} THEN [exc |-> "ValueError", ret |-> <<>>]
        ELSE [exc |-> "",
              ret |-> <<RSub(RMin(candidates), space), RAdd(RMax(candidates), space)>>]

Spaces == {R(0), <<1, 2>>}

EnergyRange ==
    /\ pc = "ready"
    /\ \E space \in Spaces :
           \E r \in {energy_range(charge_energies_dict, cross_point_dicts, space)} :
               /\ arg' = <<space>>
               /\ ret' = r.ret
               /\ exc' = r.exc
    /\ op' = "energy_range"
    /\ Unchanged

NextRange ==
    \/ PostInit
    \/ EnergyRange

SpecRange == Init /\ [][NextRange]_vars

\* the aggregates a caller can build when nothing restricts the arguments:
\* no, one or two defects, repeated charges, an energy far below the
\* feasible point of the solver, and domains with e_min >= e_max
AnyLineSeqs ==
    {[i \in 1..Len(s) |-> <<s[i][1], R(s[i][2])>>] :
        s \in UNION {[1..n -> {0, 1} \X {-2000, 3}] : n \in 1..2}}

AnyDomains == {<<R(0), R(3)>>, <<R(3), R(3)>>, <<R(6), R(1)>>}

InitAny ==
    /\ \E d \in UNION {[1..k -> AnyLineSeqs] : k \in 0..Len(Names)} :
           charge_energies_dict = [i \in 1..Len(d) |-> [name |-> Names[i], ce |-> d[i]]]
    /\ \E dom \in AnyDomains : e_min = dom[1] /\ e_max = dom[2]
    /\ cross_point_dicts = <<>>
    /\ pc = "new"
    /\ op = ""
    /\ arg = <<>>
    /\ ret = None
    /\ exc = ""
    /\ summary = None
    /\ parse_frame = None

NextAny == PostInit

SpecAny == InitAny /\ [][NextAny]_vars

\* aggregates of well-formed defects over domains of which one has an edge
\* less than 0.001 below the crossing of the lines (0, 6.0) and (2, -4.0)
SolveLineSeqs ==
    {[i \in 1..Len(s) |-> <<s[i][1], R(s[i][2])>>] :
        s \in {s \in UNION {[1..n -> {0, 1, 2} \X {-4, 6}] : n \in 1..MaxLines} :
                 DistinctCharges(s)}}

SolveDomains == {<<R(1), R(6)>>, <<<<9999, 2000>>, R(6)>>}

InitSolve ==
    /\ \E d \in {d \in UNION {[1..k -> SolveLineSeqs] : k \in 1..Len(Names)} :
                   TotalLines([i \in DOMAIN d |-> [ce |-> d[i]]]) <= MaxLines} :
           charge_energies_dict = [i \in 1..Len(d) |-> [name |-> Names[i], ce |-> d[i]]]
    /\ \E dom \in SolveDomains : e_min = dom[1] /\ e_max = dom[2]
    /\ cross_point_dicts = <<>>
    /\ pc = "new"
    /\ op = ""
    /\ arg = <<>>
    /\ ret = None
    /\ exc = ""
    /\ summary = None
    /\ parse_frame = None

NextSolve == PostInit

SpecSolve == InitSolve /\ [][NextSolve]_vars

(***************************************************************************)
(* DefectEnergySummary.charge_energies.                                    *)
(***************************************************************************)
RECURSIVE sum(_)
sum(seq) == IF seq = <<>> THEN R(0) ELSE RAdd(sum(SubSeq(seq, 1, Len(seq) - 1)), seq[Len(seq)])

\* DefectEnergy.total_correction
total_correction(e) == sum(e.energy_corrections)

\* DefectEnergy.energy
energy(e, with_correction) ==
    IF with_correction THEN RAdd(e.formation_energy, total_correction(e))
    ELSE e.formation_energy

\* reservoir_e with the exchanged atoms counted positively
reservoir_e_added(atom_io, rel_chem_pot) ==
    sum([i \in 1..Len(atom_io) |-> RMul(R(atom_io[i][2]), rel_chem_pot[atom_io[i][1]])])

\* sum([-diff * rel_chem_pot[elem] for elem, diff in v.atom_io.items()])
reservoir_e(atom_io, rel_chem_pot) ==
    sum([i \in 1..Len(atom_io) |-> RMul(R(-atom_io[i][2]), rel_chem_pot[atom_io[i][1]])])

\* the shallow filter skipping every state that is not flagged False
skipped_unless_false(e, allow_shallow) ==
    allow_shallow = FALSE /\ e.is_shallow # "False"

\* if allow_shallow is False and e.is_shallow is True: continue
skipped(e, allow_shallow) ==
    allow_shallow = FALSE /\ e.is_shallow = "True"

\* zip(a, b) stops at the end of the shorter sequence
zip_len(a, b) == IF Len(a) <= Len(b) THEN Len(a) ELSE Len(b)

\* the list x after the first k charge states of the defect v
RECURSIVE x_loop(_, _, _, _, _)
x_loop(v, rel_chem_pot, allow_shallow, with_correction, k) ==
    IF k = 0 THEN <<>>
    ELSE LET x == x_loop(v, rel_chem_pot, allow_shallow, with_correction, k - 1)
             e == v.defect_energies[k]
         IN  IF skipped(e, allow_shallow) THEN x
             ELSE Append(x, <<v.charges[k],
                              RAdd(energy(e, with_correction),
                                   reservoir_e(v.atom_io, rel_chem_pot))>>)

\* the dict result after the first k defects: a name is set only if x is
\* not empty
RECURSIVE result_loop(_, _, _, _, _)
result_loop(defect_energies, rel_chem_pot, allow_shallow, with_correction, k) ==
    IF k = 0 THEN <<>>
    ELSE LET result == result_loop(defect_energies, rel_chem_pot, allow_shallow,
                                   with_correction, k - 1)
             v == defect_energies[k]
             x == x_loop(v, rel_chem_pot, allow_shallow, with_correction,
                         zip_len(v.charges, v.defect_energies))
         IN  IF x # <<>> THEN Append(result, [name |-> v.name, ce |-> x]) ELSE result

\* pydefect.util.prepare_names.prettify_names with name_style None: the
\* entries pass through under their names
prettify_names(result, name_style) == result

charge_energies(s, chem_pot_label, allow_shallow, with_correction) ==
    LET rel_chem_pot == s.rel_chem_pots[chem_pot_label]
        result == result_loop(s.defect_energies, rel_chem_pot, allow_shallow,
                              with_correction, Len(s.defect_energies))
    IN  [charge_energies_dict |-> prettify_names(result, None),
         e_min |-> s.e_min,
         e_max |-> IF s.e_max = None THEN s.cbm ELSE s.e_max[1]]

MaxStates == 3

SummaryCharges == {-1, 1}

DefectEnergyObjects ==
    {[formation_energy |-> R(3), energy_corrections |-> <<<<1, 2>>>>, is_shallow |-> "None"],
     [formation_energy |-> R(-4), energy_corrections |-> <<R(1), <<-1, 2>>>>, is_shallow |-> "True"],
     [formation_energy |-> R(6), energy_corrections |-> <<>>, is_shallow |-> "False"]}

\* the atoms exchanged with the reservoirs by the defects A and B
AtomIo == <<<<<<"Mg", -1>>>>, <<<<"Mg", 1>>, <<"O", -1>>>>>>

RelChemPots ==
    [A |-> [Mg |-> R(-1), O |-> <<-1, 2>>], B |-> [Mg |-> R(0), O |-> R(-2)]]

DefectEnergiesObjects(i) ==
    {[name |-> Names[i], atom_io |-> AtomIo[i], charges |-> c, defect_energies |-> d] :
        c \in {c \in UNION {[1..n -> SummaryCharges] : n \in 1..MaxStates} :
                 \A j, k \in 1..Len(c) : j # k => c[j] # c[k]},
        d \in UNION {[1..n -> DefectEnergyObjects] : n \in 1..MaxStates}}

Summaries ==
    {[defect_energies |-> d, rel_chem_pots |-> RelChemPots, cbm |-> R(6),
      e_min |-> R(0), e_max |-> m] :
        d \in {d \in {<<a>> : a \in DefectEnergiesObjects(1)}
                       \cup (DefectEnergiesObjects(1) \X DefectEnergiesObjects(2)) :
                 /\ \A i \in 1..Len(d) : Len(d[i].charges) = Len(d[i].defect_energies)
                 /\ TotalLines([i \in 1..Len(d) |-> [ce |-> d[i].charges]]) <= MaxStates},
        m \in {None, Some(R(3))}}

InitSummary ==
    /\ summary \in Summaries
    /\ charge_energies_dict = <<>>
    /\ e_min = None
    /\ e_max = None
    /\ cross_point_dicts = <<>>
    /\ pc = "summary"
    /\ op = ""
    /\ arg = <<>>
    /\ ret = None
    /\ exc = ""
    /\ parse_frame = None

\* summary.charge_energies(chem_pot_label, allow_shallow, with_correction):
\* the ChargeEnergies it returns has run __post_init__
ChargeEnergiesOfSummary ==
    /\ pc = "summary"
    /\ \E chem_pot_label \in DOMAIN summary.rel_chem_pots, allow_shallow \in BOOLEAN,
          with_correction \in BOOLEAN, order \in Orders :
           \E c \in {charge_energies(summary, chem_pot_label, allow_shallow, with_correction)} :
           \E r \in {post_init(c.charge_energies_dict, c.e_min, c.e_max, order)} :
               /\ charge_energies_dict' = c.charge_energies_dict
               /\ e_min' = c.e_min
               /\ e_max' = c.e_max
               /\ cross_point_dicts' = r.cross_point_dicts
               /\ exc' = r.exc
               /\ pc' = IF r.exc = "" THEN "ready" ELSE "raised"
               /\ arg' = <<chem_pot_label, allow_shallow, with_correction>>
    /\ op' = "charge_energies"
    /\ UNCHANGED <<ret, summary, parse_frame>>

NextSummary == ChargeEnergiesOfSummary

SpecSummary == InitSummary /\ [][NextSummary]_vars

\* summaries of one defect whose charges and defect_energies are any two
\* lists: DefectEnergies has no __post_init__ that compares them
AnySummaries ==
    {[defect_energies |-> <<[name |-> Names[1], atom_io |-> AtomIo[1],
                              charges |-> c, defect_energies |-> d]>>,
      rel_chem_pots |-> RelChemPots, cbm |-> R(6), e_min |-> R(0), e_max |-> None] :
        c \in UNION {[1..n -> SummaryCharges] : n \in 1..MaxStates},
        d \in UNION {[1..n -> DefectEnergyObjects] : n \in 1..MaxStates}}

InitAnySummary ==
    /\ summary \in AnySummaries
    /\ charge_energies_dict = <<>>
    /\ e_min = None
    /\ e_max = None
    /\ cross_point_dicts = <<>>
    /\ pc = "summary"
    /\ op = ""
    /\ arg = <<>>
    /\ ret = None
    /\ exc = ""
    /\ parse_frame = None

NextAnySummary ==
    \/ ChargeEnergiesOfSummary
    \/ TransitionLevels

SpecAnySummary == InitAnySummary /\ [][NextAnySummary]_vars

(***************************************************************************)
(* parse_dirs (pydefect/cli/main_functions.py). A directory entry is what  *)
(* the call of _inner_function on it does: "file" (d.is_file(), no call),  *)
(* "truthy" and "falsy" (the value returned), "Exception" (an exception    *)
(* derived from Exception) and "KeyboardInterrupt" (one that is not). The  *)
(* path of an entry, and its truthy result, is its position in dirs.       *)
(***************************************************************************)
MaxDirs == 3

DirKinds == {"file", "truthy", "falsy", "Exception", "KeyboardInterrupt"}

\* the loop body breaking out of the loop after a failure
parse_dir_break_on_failure(f) ==
    LET d == f.i
        kind == f.dirs[d]
    IN  IF kind = "file" THEN [f EXCEPT !.i = @ + 1]
        ELSE IF kind = "truthy"
             THEN [f EXCEPT !.i = @ + 1, !.called = Append(@, d), !.returns = Append(@, d)]
        ELSE IF kind = "falsy"
             THEN [f EXCEPT !.i = @ + 1, !.called = Append(@, d)]
        ELSE IF kind = "Exception"
             THEN [f EXCEPT !.i = Len(f.dirs) + 1, !.called = Append(@, d),
                            !.fail = Append(@, d)]
        ELSE [f EXCEPT !.called = Append(@, d), !.raised = kind]

\* the body of "for d in dirs" for d = dirs[f.i]
parse_dir(f) ==
    LET d == f.i
        kind == f.dirs[d]
    IN  IF kind = "file" THEN [f EXCEPT !.i = @ + 1]
        ELSE IF kind = "truthy"
             THEN [f EXCEPT !.i = @ + 1, !.called = Append(@, d), !.returns = Append(@, d)]
        ELSE IF kind = "falsy"
             THEN [f EXCEPT !.i = @ + 1, !.called = Append(@, d)]
        ELSE IF kind = "Exception"
             THEN [f EXCEPT !.i = @ + 1, !.called = Append(@, d), !.fail = Append(@, d)]
        ELSE [f EXCEPT !.called = Append(@, d), !.raised = kind]

InitParse ==
    /\ \E dirs \in UNION {[1..n -> DirKinds] : n \in 0..MaxDirs} :
           parse_frame = [dirs |-> dirs, i |-> 1, fail |-> <<>>, returns |-> <<>>,
                          called |-> <<>>, raised |-> ""]
    /\ charge_energies_dict = <<>>
    /\ e_min = None
    /\ e_max = None
    /\ cross_point_dicts = <<>>
    /\ pc = "loop"
    /\ op = "parse_dirs"
    /\ arg = <<>>
    /\ ret = None
    /\ exc = ""
    /\ summary = None

\* one iteration of the loop
ParseDir ==
    /\ pc = "loop"
    /\ parse_frame.i <= Len(parse_frame.dirs)
    /\ parse_frame' = parse_dir(parse_frame)
    /\ exc' = parse_frame'.raised
    /\ pc' = IF parse_frame'.raised = "" THEN "loop" ELSE "raised"
    /\ UNCHANGED <<charge_energies_dict, e_min, e_max, cross_point_dicts, op, arg, ret,
                   summary>>

\* return _returns if _returns else None
ParseReturn ==
    /\ pc = "loop"
    /\ parse_frame.i > Len(parse_frame.dirs)
    /\ ret' = IF parse_frame.returns # <<>> THEN Some(parse_frame.returns) ELSE None
    /\ pc' = "returned"
    /\ UNCHANGED <<charge_energies_dict, e_min, e_max, cross_point_dicts, op, arg, exc,
                   summary, parse_frame>>

NextParse ==
    \/ ParseDir
    \/ ParseReturn

SpecParse == InitParse /\ [][NextParse]_vars

(***************************************************************************)
(* Reference definitions the claims are stated with.                       *)
(***************************************************************************)
\* charges {0, 1, 2} with corrected energies {6, 3, -4}
Fixture == <<<<0, R(6)>>, <<1, R(3)>>, <<2, R(-4)>>>>

LineAt(line, ef) == RAdd(line[2], RMul(R(line[1]), ef))

ChargeSet(ce) == {ce[i][1] : i \in 1..Len(ce)}

EnergyOf(ce, q) == ce[CHOOSE i \in 1..Len(ce) : ce[i][1] = q][2]

\* -E / q of the line at index i
ZeroCrossing(ce, i) == RDiv(RNeg(ce[i][2]), R(ce[i][1]))

(***************************************************************************)
(* C1: every point (ef, energy) stored in a defect's CrossPoints has       *)
(* e_min <= ef <= e_max and energy equal to the minimum over that defect's *)
(* own lines of E + charge*ef (equality up to the solver's rounding).      *)
(***************************************************************************)
Near(a, b) ==
    LET d == RSub(a, b)
    IN  RLeq(<<Abs(d[1]), d[2]>>, <<1, Pow10(Decimals - 1)>>)

Envelope(ce, ef) == RMin({LineAt(ce[i], ef) : i \in 1..Len(ce)})

Stored(cp) == Range(cp.inner_cross_points) \cup Range(cp.boundary_points)

C1_OnOwnEnvelope ==
    pc = "ready" =>
        \A name \in DefectNames :
            \A pt \in Stored(cross_point_dicts[name]) :
                /\ RLeq(e_min, pt[1]) /\ RLeq(pt[1], e_max)
                /\ Near(pt[2], Envelope(SCE(name), pt[1]))

(***************************************************************************)
(* C2: the CrossPoints of each defect of an aggregate are those obtained   *)
(* when that defect is the only entry of the aggregate over the same       *)
(* domain, whatever other defects are present.                             *)
(***************************************************************************)
SamePoints(cp1, cp2) ==
    /\ Range(cp1.inner_cross_points) = Range(cp2.inner_cross_points)
    /\ Range(cp1.boundary_points) = Range(cp2.boundary_points)

Alone(name) ==
    post_init(<<[name |-> name, ce |-> SCE(name)]>>, e_min, e_max, "ascending")
        .cross_point_dicts[name]

C2_Isolation ==
    pc = "ready" =>
        \A name \in DefectNames : SamePoints(cross_point_dicts[name], Alone(name))

(***************************************************************************)
(* C3: each interior vertex of a defect's CrossPoints separates two        *)
(* segments of different charges q_left and q_right, and its Fermi level   *)
(* is the transition level of that defect for the pair {q_left, q_right},  *)
(* which lies inside the domain.                                           *)
(***************************************************************************)
LevelOf(ce, q1, q2) ==
    LET t == transition_levels(ce).ret
    IN  IF <<q1, q2>> \in DOMAIN t THEN Some(t[<<q1, q2>>])
        ELSE IF <<q2, q1>> \in DOMAIN t THEN Some(t[<<q2, q1>>])
        ELSE None

C3_VerticesAreTransitionLevels ==
    pc = "ready" =>
        \A name \in DefectNames :
            LET pts == all_sorted_points(cross_point_dicts[name])
                ch  == charges(cross_point_dicts[name])
            IN  /\ ch.exc = ""
                /\ \A i \in 2..(Len(pts) - 1) :
                       LET level == LevelOf(SCE(name), ch.ret[i - 1], ch.ret[i])
                       IN  /\ ch.ret[i - 1] # ch.ret[i]
                           /\ level # None
                           /\ Near(pts[i][1], level[1])
                           /\ RLeq(e_min, level[1]) /\ RLeq(level[1], e_max)

(***************************************************************************)
(* C11: the set of segment charges of a defect's CrossPoints over a domain *)
(* is the set of charges whose line is the unique minimiser at some Fermi  *)
(* level of the domain: {0, 2} on [4.9, 5.1] and {2} on [0, 0.1] for the   *)
(* fixture.                                                                *)
(***************************************************************************)
UniqueMinimiser(ce, i, ef) ==
    \A j \in 1..Len(ce) : j # i => RLess(LineAt(ce[i], ef), LineAt(ce[j], ef))

\* the domain edges and the levels inside the domain where two lines cross
Critical(ce, lo, hi) ==
    {lo, hi} \cup
    {l \in {RDiv(RNeg(RSub(ce[p[1]][2], ce[p[2]][2])), R(ce[p[1]][1] - ce[p[2]][1])) :
              p \in {p \in combinations(Len(ce)) : ce[p[1]][1] # ce[p[2]][1]}} :
        RLess(lo, l) /\ RLess(l, hi)}

\* a line that is the unique minimiser somewhere is so on an interval open in
\* the domain, which holds an edge or the midpoint of two critical levels
Probes(ce, lo, hi) ==
    {RDiv(RAdd(p[1], p[2]), R(2)) : p \in Critical(ce, lo, hi) \X Critical(ce, lo, hi)}

StableCharges(ce, lo, hi) ==
    {ce[i][1] : i \in {i \in 1..Len(ce) :
                         \E ef \in Probes(ce, lo, hi) : UniqueMinimiser(ce, i, ef)}}

SegmentCharges(cp) == Range(charges(cp).ret)

C11_StableCharges ==
    pc = "ready" =>
        \A name \in DefectNames :
            /\ charges(cross_point_dicts[name]).exc = ""
            /\ SegmentCharges(cross_point_dicts[name]) = StableCharges(SCE(name), e_min, e_max)
            /\ (SCE(name) = Fixture /\ e_min = <<49, 10>> /\ e_max = <<51, 10>>) =>
                   SegmentCharges(cross_point_dicts[name]) = {0, 2}
            /\ (SCE(name) = Fixture /\ e_min = R(0) /\ e_max = <<1, 10>>) =>
                   SegmentCharges(cross_point_dicts[name]) = {2}

(***************************************************************************)
(* C12: a defect with exactly one line (q, E) gets exactly two boundary    *)
(* points, (e_min, E + q*e_min) and (e_max, E + q*e_max), no interior      *)
(* crossing and the segment charges [q].                                   *)
(***************************************************************************)
C12_SingleLine ==
    pc = "ready" =>
        \A name \in DefectNames :
            Len(SCE(name)) = 1 =>
                LET cp == cross_point_dicts[name]
                    l  == SCE(name)[1]
                IN  /\ Len(cp.boundary_points) = 2
                    /\ Range(cp.boundary_points)
                         = {<<e_min, LineAt(l, e_min)>>, <<e_max, LineAt(l, e_max)>>}
                    /\ cp.inner_cross_points = <<>>
                    /\ charges(cp) = [exc |-> "", ret |-> <<l[1]>>]

(***************************************************************************)
(* C13: a charge whose line is nowhere in the domain strictly below every  *)
(* other line of the same defect is no segment charge of the defect's      *)
(* CrossPoints and contributes no vertex (the CrossPoints are those of the *)
(* remaining lines), while transition_levels still reports its pairs.      *)
(***************************************************************************)
Without(ce, q) ==
    LET RECURSIVE keep(_)
        keep(i) == IF i > Len(ce) THEN <<>>
                   ELSE (IF ce[i][1] = q THEN <<>> ELSE <<ce[i]>>) \o keep(i + 1)
    IN  keep(1)

C13_DominatedLine ==
    pc = "ready" =>
        \A name \in DefectNames :
            \A q \in ChargeSet(SCE(name)) \ StableCharges(SCE(name), e_min, e_max) :
                /\ q \notin SegmentCharges(cross_point_dicts[name])
                /\ SamePoints(cross_point_dicts[name],
                              post_init(<<[name |-> name, ce |-> Without(SCE(name), q)]>>,
                                        e_min, e_max, "ascending").cross_point_dicts[name])
                /\ \A r \in ChargeSet(SCE(name)) \ {q} :
                       LevelOf(SCE(name), q, r) # None

(***************************************************************************)
(* C4: transition_levels on n distinct charges has exactly n(n-1)/2        *)
(* entries, one per unordered pair of distinct charges and never both      *)
(* orientations of a pair; each value ef satisfies E1 + q1*ef = E2 + q2*ef;*)
(* the fixture gives {(0,1): 3, (0,2): 5, (1,2): 7}.                       *)
(***************************************************************************)
C4_TransitionLevels ==
    (op = "transition_levels" /\ Len(arg) = 1 /\ DistinctCharges(SCE(arg[1]))) =>
        LET ce == SCE(arg[1])
            n  == Len(ce)
            qs == ChargeSet(ce)
        IN  /\ exc = ""
            /\ 2 * Cardinality(DOMAIN ret) = n * (n - 1)
            /\ \A q1, q2 \in qs : q1 # q2 =>
                   (<<q1, q2>> \in DOMAIN ret) # (<<q2, q1>> \in DOMAIN ret)
            /\ \A k \in DOMAIN ret :
                   /\ k[1] \in qs /\ k[2] \in qs /\ k[1] # k[2]
                   /\ LineAt(<<k[1], EnergyOf(ce, k[1])>>, ret[k])
                        = LineAt(<<k[2], EnergyOf(ce, k[2])>>, ret[k])
            /\ ce = Fixture =>
                   ret = (<<0, 1>> :> R(3) @@ <<0, 2>> :> R(5) @@ <<1, 2>> :> R(7))

\* the fixture's levels, the dominated pair (1, 2) included
C4_Witness ==
    /\ op = "transition_levels" /\ Len(arg) = 1 /\ exc = ""
    /\ SCE(arg[1]) = Fixture
    /\ Cardinality(DOMAIN ret) = 3
    /\ ret[<<1, 2>>] = R(7)

(***************************************************************************)
(* C5: transition_levels accepts a base shift b; each value with shift b   *)
(* is the value with shift 0 minus b, and the keys are those of shift 0.   *)
(***************************************************************************)
C5_BaseShift ==
    (op = "transition_levels" /\ Len(arg) = 2 /\ DistinctCharges(SCE(arg[1]))) =>
        LET ce == SCE(arg[1])
            t0 == transition_levels(ce).ret
        IN  /\ exc = ""
            /\ DOMAIN ret = DOMAIN t0
            /\ \A k \in DOMAIN t0 : ret[k] = RSub(t0[k], arg[2])

(***************************************************************************)
(* C6: for a non-empty line set, energy_at_ef(ef) returns (e, q) with q    *)
(* the charge of a line, e = E_q + q*ef and e <= E_p + p*ef for every line *)
(* p; the fixture gives (-4, 2) at ef = 0 and (6, 0) at ef = 10.           *)
(***************************************************************************)
C6_EnergyAtEf ==
    op = "energy_at_ef" =>
        LET ce == SCE(arg[1])
            ef == arg[2]
        IN  /\ exc = ""
            /\ Len(ret) = 2 /\ Len(ret[2]) = 1
            /\ \E i \in 1..Len(ce) : ret[2] = Some(ce[i][1]) /\ ret[1] = LineAt(ce[i], ef)
            /\ \A i \in 1..Len(ce) : RLeq(ret[1], LineAt(ce[i], ef))
            /\ (ce = Fixture /\ ef = R(0)) => ret = <<R(-4), Some(2)>>
            /\ (ce = Fixture /\ ef = R(10)) => ret = <<R(6), Some(0)>>

\* a line set of three lines where the minimum is not the first line
C6_Witness ==
    /\ op = "energy_at_ef"
    /\ Len(SCE(arg[1])) = 3
    /\ ret[2] = Some(SCE(arg[1])[3][1])
    /\ RLess(ret[1], LineAt(SCE(arg[1])[1], arg[2]))
    /\ RLess(ret[1], LineAt(SCE(arg[1])[2], arg[2]))

(***************************************************************************)
(* C7: when several lines attain the minimal energy at ef, energy_at_ef    *)
(* returns the charge of the one that comes first in the input sequence.   *)
(***************************************************************************)
Minimisers(ce, ef) ==
    {i \in 1..Len(ce) : \A j \in 1..Len(ce) : RLeq(LineAt(ce[i], ef), LineAt(ce[j], ef))}

FirstOf(S) == CHOOSE i \in S : \A j \in S : i <= j

C7_TieFirst ==
    (op = "energy_at_ef" /\ Cardinality(Minimisers(SCE(arg[1]), arg[2])) >= 2) =>
        ret[2] = Some(SCE(arg[1])[FirstOf(Minimisers(SCE(arg[1]), arg[2]))][1])

\* the fixture at ef = 5: charges 0 and 2 tie; charge 0 is first, charge 2
\* has the larger |charge| and is last
C7_Witness ==
    /\ op = "energy_at_ef"
    /\ SCE(arg[1]) = Fixture
    /\ arg[2] = R(5)
    /\ Minimisers(Fixture, R(5)) = {1, 3}
    /\ ret = <<R(6), Some(0)>>

(***************************************************************************)
(* C8: the lower component of pinning_level(e_min, e_max) is (p, q) with p *)
(* the maximum of -E/charge over the positive-charge lines and q the       *)
(* charge of a line attaining it, when such a line exists and p >= e_min;  *)
(* otherwise it is None. Charge-0 lines never contribute or fail.          *)
(***************************************************************************)
Positive(ce) == {i \in 1..Len(ce) : ce[i][1] > 0}

Negative(ce) == {i \in 1..Len(ce) : ce[i][1] < 0}

C8_LowerPinning ==
    (op = "pinning_level" /\ Len(arg) = 3) =>
        LET ce  == SCE(arg[1])
            pos == Positive(ce)
            p   == RMax({ZeroCrossing(ce, i) : i \in pos})
        IN  /\ exc = ""
            /\ IF pos # {} /\ RLeq(arg[2], p)
               THEN /\ ret[1] # None
                    /\ ret[1][1] = p
                    /\ \E i \in pos : ret[1][2] = Some(ce[i][1]) /\ ZeroCrossing(ce, i) = p
               ELSE ret[1] = None

\* a neutral line and two donor lines, the later one pinning above e_min = 1
C8_Witness ==
    /\ op = "pinning_level" /\ Len(arg) = 3
    /\ SCE(arg[1]) = Fixture
    /\ arg[2] = R(1)
    /\ ret[1] = <<R(2), Some(2)>>

(***************************************************************************)
(* C9: the upper component of pinning_level(e_min, e_max) is (p, q) with p *)
(* the minimum of -E/charge over the negative-charge lines and q < 0 the   *)
(* charge of a line attaining it, when such a line exists and p <= e_max;  *)
(* otherwise it is None. It is never a copy of the lower component.        *)
(***************************************************************************)
C9_UpperPinning ==
    (op = "pinning_level" /\ Len(arg) = 3) =>
        LET ce  == SCE(arg[1])
            neg == Negative(ce)
            p   == RMin({ZeroCrossing(ce, i) : i \in neg})
        IN  /\ exc = ""
            /\ IF neg # {} /\ RLeq(p, arg[3])
               THEN /\ ret[2] # None
                    /\ ret[2][1] = p
                    /\ \E i \in neg : ret[2][2] = Some(ce[i][1]) /\ ZeroCrossing(ce, i) = p
               ELSE ret[2] = None

(***************************************************************************)
(* C10: with no negative-charge line and no domain bound the upper         *)
(* component of pinning_level is the pair (inf, None); the fixture gives   *)
(* ((2, 2), (inf, None)), and ((1, 2), (inf, None)) with a base shift of 1.*)
(***************************************************************************)
C10_UnboundedPinning ==
    (op = "pinning_level" /\ arg[2] = NegInf /\ arg[3] = PosInf) =>
        LET ce == SCE(arg[1])
        IN  /\ (Len(arg) = 3 /\ Negative(ce) = {}) => ret[2] = <<PosInf, None>>
            /\ (Len(arg) = 3 /\ ce = Fixture) =>
                   ret = <<<<R(2), Some(2)>>, <<PosInf, None>>>>
            /\ (Len(arg) = 4 /\ ce = Fixture /\ arg[4] = R(1)) =>
                   exc = "" /\ ret = <<<<R(1), Some(2)>>, <<PosInf, None>>>>

(***************************************************************************)
(* CrossPoints properties.                                                 *)
(***************************************************************************)
GivenPoints == TheCrossPoints.boundary_points \o TheCrossPoints.inner_cross_points

Count(seq, x) == Cardinality({i \in 1..Len(seq) : seq[i] = x})

DistinctFermiLevels ==
    \A i, j \in 1..Len(GivenPoints) : i # j => GivenPoints[i][1] # GivenPoints[j][1]

FixtureCrossPoints ==
    [inner_cross_points |-> <<<<R(2), R(30)>>, <<R(3), R(40)>>>>,
     boundary_points |-> <<<<R(1), R(10)>>, <<R(4), R(40)>>>>]

Slope(pts, i) ==
    RDiv(RSub(pts[i + 1][2], pts[i][2]), RSub(pts[i + 1][1], pts[i][1]))

Midpoint(pts, i) ==
    <<RDiv(RAdd(pts[i][1], pts[i + 1][1]), R(2)), RDiv(RAdd(pts[i][2], pts[i + 1][2]), R(2))>>

\* q is the integer nearest to the rational a, the even one of the two at a tie
NearestInteger(q, a) ==
    /\ 2 * Abs(q * a[2] - a[1]) <= a[2]
    /\ 2 * Abs(q * a[2] - a[1]) = a[2] => q % 2 = 0

\* C14: all_sorted_points holds every given point as often as it was given
\* (boundary and inner together, nothing added, dropped or deduplicated) in
\* ascending order of Fermi level, and t_all_sorted_points is the list of the
\* Fermi levels and the list of the energies of that same sequence.
C14_SortedPoints ==
    /\ op = "all_sorted_points" =>
           /\ exc = ""
           /\ Len(ret) = Len(GivenPoints)
           /\ \A pt \in Range(ret) \cup Range(GivenPoints) : Count(ret, pt) = Count(GivenPoints, pt)
           /\ \A i \in 1..(Len(ret) - 1) : RLeq(ret[i][1], ret[i + 1][1])
           /\ TheCrossPoints = FixtureCrossPoints =>
                  ret = <<<<R(1), R(10)>>, <<R(2), R(30)>>, <<R(3), R(40)>>, <<R(4), R(40)>>>>
    /\ op = "t_all_sorted_points" =>
           LET pts == all_sorted_points(TheCrossPoints)
           IN  /\ exc = ""
               /\ pts # <<>> =>
                      /\ Len(ret) = 2
                      /\ Len(ret[1]) = Len(pts) /\ Len(ret[2]) = Len(pts)
                      /\ \A i \in 1..Len(pts) : <<ret[1][i], ret[2][i]>> = pts[i]
               /\ pts = <<>> => ret = <<>>

C14_Witness ==
    /\ op = "t_all_sorted_points"
    /\ Len(TheCrossPoints.boundary_points) = 2
    /\ Len(TheCrossPoints.inner_cross_points) = 2
    /\ TheCrossPoints.boundary_points \o TheCrossPoints.inner_cross_points # all_sorted_points(TheCrossPoints)
    /\ \E i, j \in 1..4 : i # j /\ GivenPoints[i] = GivenPoints[j]
    /\ ret[1] # ret[2]

\* C15: with n >= 2 points of pairwise distinct Fermi levels, charges has n-1
\* entries, the i-th being the integer nearest to the slope between the i-th
\* and (i+1)-th sorted points, and charge_list is the n pairs of neighbours
\* of that sequence padded with None on both ends.
C15_Charges ==
    (Len(GivenPoints) >= 2 /\ DistinctFermiLevels) =>
        LET pts == all_sorted_points(TheCrossPoints)
            n   == Len(pts)
        IN  /\ op = "charges" =>
                   /\ exc = ""
                   /\ Len(ret) = n - 1
                   /\ \A i \in 1..(n - 1) : NearestInteger(ret[i], Slope(pts, i))
                   /\ TheCrossPoints = FixtureCrossPoints => ret = <<20, 10, 0>>
            /\ op = "charge_list" =>
                   LET ch == charges(TheCrossPoints).ret
                   IN  /\ exc = ""
                       /\ Len(ret) = n
                       /\ \A i \in 1..n :
                              /\ ret[i][1] = IF i = 1 THEN None ELSE Some(ch[i - 1])
                              /\ ret[i][2] = IF i = n THEN None ELSE Some(ch[i])
                       /\ TheCrossPoints = FixtureCrossPoints =>
                              ret = <<<<None, Some(20)>>, <<Some(20), Some(10)>>,
                                      <<Some(10), Some(0)>>, <<Some(0), None>>>>

C15_Witness ==
    /\ op = "charges"
    /\ DistinctFermiLevels
    /\ Len(ret) = 2
    /\ \E i \in 1..2 : Slope(all_sorted_points(TheCrossPoints), i)[2] = 2

\* C16 as stated: annotated_charge_positions maps the charge of every segment
\* to the midpoint of that segment and has as many keys as there are segments.
C16_OneKeyPerSegment ==
    (op = "annotated_charge_positions" /\ Len(GivenPoints) >= 2 /\ DistinctFermiLevels) =>
        LET pts == all_sorted_points(TheCrossPoints)
            ch  == charges(TheCrossPoints).ret
        IN  /\ exc = ""
            /\ Cardinality(DOMAIN ret) = Len(pts) - 1
            /\ \A i \in 1..(Len(pts) - 1) : ret[ch[i]] = Midpoint(pts, i)

\* C16 amended: annotated_charge_positions has one key per distinct segment
\* charge, mapped to the midpoint of the last segment (in ascending Fermi
\* level) that has this charge; it has one key per segment exactly when the
\* segment charges are pairwise distinct.
C16_LastSegmentOfCharge ==
    (op = "annotated_charge_positions" /\ Len(GivenPoints) >= 2 /\ DistinctFermiLevels) =>
        LET pts == all_sorted_points(TheCrossPoints)
            ch  == charges(TheCrossPoints).ret
            Last(q) == CHOOSE i \in 1..Len(ch) :
                           ch[i] = q /\ \A j \in (i + 1)..Len(ch) : ch[j] # q
        IN  /\ exc = ""
            /\ DOMAIN ret = Range(ch)
            /\ \A q \in Range(ch) : ret[q] = Midpoint(pts, Last(q))
            /\ (Cardinality(DOMAIN ret) = Len(ch)) <=>
                   (\A i, j \in 1..Len(ch) : i # j => ch[i] # ch[j])
            /\ TheCrossPoints = FixtureCrossPoints =>
                   ret = (20 :> <<<<3, 2>>, R(20)>> @@ 10 :> <<<<5, 2>>, R(35)>>
                          @@ 0 :> <<<<7, 2>>, R(40)>>)

C16_Witness ==
    /\ op = "annotated_charge_positions"
    /\ DistinctFermiLevels
    /\ exc = ""
    /\ Len(GivenPoints) = 3
    /\ Cardinality(DOMAIN ret) = 1

\* C17: when two consecutive sorted points have the same Fermi level, or the
\* slope between them is not an integer, computing the segment charges fails
\* with EnvelopeDegenerateError.
C17_DegenerateEnvelope ==
    LET pts == all_sorted_points(TheCrossPoints)
    IN  (/\ op = "charges"
         /\ \E i \in 1..(Len(pts) - 1) :
                \/ pts[i][1] = pts[i + 1][1]
                \/ Slope(pts, i)[2] # 1) =>
            exc = "EnvelopeDegenerateError"

(***************************************************************************)
(* energy_range.                                                           *)
(***************************************************************************)
\* the vertices of the lower envelope of the lines of ce over [lo, hi]: its
\* two end points and the points inside where two lines of different
\* charges both attain it
EnvelopeVertices(ce, lo, hi) ==
    {<<l, Envelope(ce, l)>> :
        l \in {l \in Critical(ce, lo, hi) :
                 \/ l \in {lo, hi}
                 \/ \E i, j \in 1..Len(ce) :
                        /\ ce[i][1] # ce[j][1]
                        /\ LineAt(ce[i], l) = Envelope(ce, l)
                        /\ LineAt(ce[j], l) = Envelope(ce, l)}}

VertexEnergies ==
    {pt[2] : pt \in UNION {EnvelopeVertices(SCE(name), e_min, e_max) : name \in DefectNames}}

\* C18: energy_range(space) returns [m - space, M + space] for the minimum m
\* and the maximum M of the energies of the envelope vertices of all defects
\* of the aggregate, so that the energy of every envelope vertex of every
\* defect is inside the returned range (up to the solver's rounding).
C18_EnergyRange ==
    op = "energy_range" =>
        /\ exc = ""
        /\ Near(ret[1], RSub(RMin(VertexEnergies), arg[1]))
        /\ Near(ret[2], RAdd(RMax(VertexEnergies), arg[1]))
        /\ \A e \in VertexEnergies :
               /\ RLeq(RSub(ret[1], <<1, Pow10(Decimals - 1)>>), e)
               /\ RLeq(e, RAdd(ret[2], <<1, Pow10(Decimals - 1)>>))

(***************************************************************************)
(* DefectEnergySummary.charge_energies.                                    *)
(***************************************************************************)
\* the defect of the summary with the given name
DefectOf(name) ==
    summary.defect_energies[CHOOSE i \in 1..Len(summary.defect_energies) :
                                summary.defect_energies[i].name = name]

IndexOfCharge(v, q) == CHOOSE j \in 1..Len(v.charges) : v.charges[j] = q

ChargesOf(ce) == [i \in 1..Len(ce) |-> ce[i][1]]

AtomCount(v, elem) ==
    IF \E i \in 1..Len(v.atom_io) : v.atom_io[i][1] = elem
    THEN v.atom_io[CHOOSE i \in 1..Len(v.atom_io) : v.atom_io[i][1] = elem][2]
    ELSE 0

ReservoirEnergy(v, chem_pot) ==
    RNeg(RAdd(RMul(R(AtomCount(v, "Mg")), chem_pot.Mg), RMul(R(AtomCount(v, "O")), chem_pot.O)))

Corrections(e) ==
    IF Len(e.energy_corrections) = 0 THEN R(0)
    ELSE IF Len(e.energy_corrections) = 1 THEN e.energy_corrections[1]
    ELSE RAdd(e.energy_corrections[1], e.energy_corrections[2])

Shallow(v, j) == v.defect_energies[j].is_shallow

KeptCharges(v, allow_shallow) ==
    LET RECURSIVE kept(_)
        kept(j) ==
            IF j = 0 THEN <<>>
            ELSE IF allow_shallow = FALSE /\ Shallow(v, j) = "True" THEN kept(j - 1)
            ELSE Append(kept(j - 1), v.charges[j])
    IN  kept(Len(v.charges))

\* C20: with shallow states disallowed exactly the charge states flagged
\* True are dropped, with shallow states allowed nothing is dropped; the
\* result has one entry for each defect name that keeps a charge state and
\* none for a name that keeps nothing, and no error is raised.
C20_ShallowFilter ==
    op = "charge_energies" =>
        /\ exc = ""
        /\ \A i \in 1..Len(summary.defect_energies) :
               LET v == summary.defect_energies[i]
               IN  /\ v.name \in DefectNames <=> KeptCharges(v, arg[2]) # <<>>
                   /\ v.name \in DefectNames => ChargesOf(SCE(v.name)) = KeptCharges(v, arg[2])
                   /\ arg[2] => (v.name \in DefectNames /\ ChargesOf(SCE(v.name)) = v.charges)
        /\ \A i, j \in 1..Len(charge_energies_dict) :
               i # j => charge_energies_dict[i].name # charge_energies_dict[j].name
        /\ DefectNames \subseteq {summary.defect_energies[i].name : i \in 1..Len(summary.defect_energies)}

C20_Witness ==
    /\ op = "charge_energies"
    /\ arg[2] = FALSE
    /\ exc = ""
    /\ Len(summary.defect_energies) = 2
    /\ DefectNames = {"B"}
    /\ \E j \in 1..Len(DefectOf("B").charges) : Shallow(DefectOf("B"), j) = "None"
    /\ \E j \in 1..Len(DefectOf("B").charges) : Shallow(DefectOf("B"), j) = "True"
    /\ Len(SCE("B")) = 1

(***************************************************************************)
(* Malformed input.                                                        *)
(***************************************************************************)
Malformed(v) ==
    \/ Len(v.charges) # Len(v.defect_energies)
    \/ \E j, k \in 1..Len(v.charges) : j # k /\ v.charges[j] = v.charges[k]

\* C21: building the line set of a defect whose charges and energies have
\* different lengths, or whose charges repeat, fails with
\* MalformedInputError; no line set is produced from it, and
\* transition_levels is never computed on a line set of such a defect.
C21_MalformedInput ==
    /\ (op = "charge_energies" /\ \E i \in 1..Len(summary.defect_energies) :
                                      Malformed(summary.defect_energies[i])) =>
           /\ exc = "MalformedInputError"
           /\ \A i \in 1..Len(summary.defect_energies) :
                  Malformed(summary.defect_energies[i]) =>
                      summary.defect_energies[i].name \notin DefectNames
    /\ op = "transition_levels" => ~Malformed(DefectOf(arg[1]))

\* a defect the solver cannot handle: a repeated charge, or a line that does
\* not pass above the feasible point ((e_min + e_max) / 2, -1000)
Failing(name) ==
    \/ ~DistinctCharges(SCE(name))
    \/ \E i \in 1..Len(SCE(name)) :
           RLeq(LineAt(SCE(name)[i], RDiv(RAdd(e_min, e_max), R(2))), R(-1000))

\* the aggregate without its failing defects
WithoutFailing ==
    SelectSeq(charge_energies_dict, LAMBDA entry : ~Failing(entry.name))

\* C22: over a proper domain the construction of an aggregate does not fail
\* as a whole when one of its defects is malformed or degenerate: that
\* defect has no CrossPoints, and every other defect has the CrossPoints it
\* has in the aggregate built without the failing defects.
C22_SoftFailure ==
    (pc # "new" /\ RLess(e_min, e_max)) =>
        /\ exc = ""
        /\ \A name \in DefectNames :
               IF Failing(name) THEN name \notin DOMAIN cross_point_dicts
               ELSE /\ name \in DOMAIN cross_point_dicts
                    /\ SamePoints(cross_point_dicts[name],
                                  post_init(WithoutFailing, e_min, e_max, "ascending")
                                      .cross_point_dicts[name])

\* C23: with e_min >= e_max the construction of the aggregate fails with
\* EmptyDomainError and no defect has any CrossPoints.
C23_EmptyDomain ==
    (pc # "new" /\ ~RLess(e_min, e_max)) =>
        /\ exc = "EmptyDomainError"
        /\ cross_point_dicts = <<>>

(***************************************************************************)
(* Determinism of the solver.                                              *)
(***************************************************************************)
Relistings(seq) ==
    {[i \in 1..Len(seq) |-> seq[p[i]]] :
        p \in {p \in [1..Len(seq) -> 1..Len(seq)] :
                 \A i, j \in 1..Len(seq) : i # j => p[i] # p[j]}}

\* the aggregate with the lines of one defect listed as in ce
Relisted(name, ce) ==
    [i \in 1..Len(charge_energies_dict) |->
        IF charge_energies_dict[i].name = name
        THEN [name |-> name, ce |-> ce]
        ELSE charge_energies_dict[i]]

SameEnvelopes(cpd) ==
    \A n \in DefectNames :
        /\ all_sorted_points(cpd[n]) = all_sorted_points(cross_point_dicts[n])
        /\ charges(cpd[n]) = charges(cross_point_dicts[n])

\* C24: whatever the order in which the solver yields its intersections, and
\* whatever the order in which the pairs of a defect are listed, every
\* defect of the aggregate has the same all_sorted_points and the same
\* segment charges.
C24_Deterministic ==
    pc = "ready" =>
        /\ \A order \in Orders :
               \E r \in {post_init(charge_energies_dict, e_min, e_max, order)} :
                   r.exc = "" /\ SameEnvelopes(r.cross_point_dicts)
        /\ \A name \in DefectNames :
               \A ce \in Relistings(SCE(name)) \ {SCE(name)} :
                   \E r \in {post_init(Relisted(name, ce), e_min, e_max, "ascending")} :
                       r.exc = "" /\ SameEnvelopes(r.cross_point_dicts)

C24_Witness ==
    /\ pc = "ready"
    /\ Len(SCE("A")) = 3
    /\ Len(cross_point_dicts["A"].inner_cross_points) = 1
    /\ Len(cross_point_dicts["A"].boundary_points) = 2
    /\ RLess(cross_point_dicts["A"].boundary_points[2][1],
             cross_point_dicts["A"].boundary_points[1][1])

(***************************************************************************)
(* The partition of the retained vertices.                                 *)
(***************************************************************************)
\* C25: every inner point has e_min + 0.001 < ef < e_max - 0.001, every
\* boundary point has ef = e_min or ef = e_max, there are exactly two
\* boundary points, one per edge, no point is in both lists, and no stored
\* point lies on the artificial bound y = large_minus_number.
C25_Partition ==
    pc = "ready" =>
        \A name \in DefectNames :
            LET cp == cross_point_dicts[name]
            IN  /\ \A pt \in Range(cp.inner_cross_points) :
                       /\ RLess(RAdd(e_min, <<1, 1000>>), pt[1])
                       /\ RLess(pt[1], RSub(e_max, <<1, 1000>>))
                /\ \A pt \in Range(cp.boundary_points) : pt[1] \in {e_min, e_max}
                /\ Len(cp.boundary_points) = 2
                /\ {pt[1] : pt \in Range(cp.boundary_points)} = {e_min, e_max}
                /\ Range(cp.inner_cross_points) \cap Range(cp.boundary_points) = {}
                /\ \A pt \in Stored(cp) : pt[2] # R(large_minus_number)

\* C26: the segment charges of a defect decrease strictly with the Fermi
\* level, each of them is a charge of the defect's own lines, and the
\* defect has at most (number of lines - 1) inner cross points.
C26_Concave ==
    pc = "ready" =>
        \A name \in DefectNames :
            LET cp == cross_point_dicts[name]
                ch == charges(cp)
            IN  /\ ch.exc = ""
                /\ \A i \in 1..(Len(ch.ret) - 1) : ch.ret[i] > ch.ret[i + 1]
                /\ Range(ch.ret) \subseteq ChargeSet(SCE(name))
                /\ Len(cp.inner_cross_points) <= Len(SCE(name)) - 1

(***************************************************************************)
(* pinning_level and the order of the lines.                               *)
(***************************************************************************)
WithoutPositive(ce) == SelectSeq(ce, LAMBDA line : line[1] <= 0)

\* C27: pinning_level(e_min, e_max) returns the same pair for every order in
\* which the lines are listed, and its upper component is the one of the
\* line set without its positive-charge lines.
C27_PinningOrder ==
    (op = "pinning_level" /\ Len(arg) = 3) =>
        /\ \A ce \in Relistings(SCE(arg[1])) : pinning_level(ce, arg[2], arg[3]) = ret
        /\ pinning_level(WithoutPositive(SCE(arg[1])), arg[2], arg[3])[2] = ret[2]

(***************************************************************************)
(* parse_dirs.                                                             *)
(***************************************************************************)
\* the positions below n of the entries of dirs whose kind is in kinds, in order
RECURSIVE Positions(_, _, _)
Positions(dirs, kinds, n) ==
    IF n = 0 THEN <<>>
    ELSE IF dirs[n] \in kinds THEN Append(Positions(dirs, kinds, n - 1), n)
    ELSE Positions(dirs, kinds, n - 1)

Returned ==
    LET dirs == parse_frame.dirs
    IN  /\ parse_frame.called = Positions(dirs, DirKinds \ {"file"}, Len(dirs))
        /\ parse_frame.fail = Positions(dirs, {"Exception", "KeyboardInterrupt"}, Len(dirs))
        /\ ret = IF Positions(dirs, {"truthy"}, Len(dirs)) = <<>> THEN None
                 ELSE Some(Positions(dirs, {"truthy"}, Len(dirs)))

\* C28 as stated: no exception of the inner function leaves parse_dirs; it
\* returns after the inner function was called on every entry that is not a
\* file, in order, with the failed directories recorded and the truthy
\* results in input order, or None when there is none.
C28_NeverPropagates ==
    /\ exc = ""
    /\ pc # "loop" => (pc = "returned" /\ Returned)

\* C28 amended: an exception of the inner function that derives from
\* Exception does not leave parse_dirs, one that does not (KeyboardInterrupt)
\* leaves it at once; the inner function is called on the entries that are
\* not files, in order, and when parse_dirs returns every failed directory
\* is recorded and the result is the list of the truthy results in input
\* order, or None when there is none.
C28_CatchesException ==
    LET dirs == parse_frame.dirs
        i    == parse_frame.i
    IN  /\ exc # "" <=> (pc = "raised" /\ dirs[i] = "KeyboardInterrupt" /\ exc = dirs[i])
        /\ pc = "raised" =>
               parse_frame.called = Positions(dirs, DirKinds \ {"file"}, i)
        /\ pc = "loop" =>
               /\ parse_frame.called = Positions(dirs, DirKinds \ {"file"}, i - 1)
               /\ parse_frame.fail = Positions(dirs, {"Exception"}, i - 1)
               /\ parse_frame.returns = Positions(dirs, {"truthy"}, i - 1)
        /\ pc = "returned" =>
               /\ \A n \in 1..Len(dirs) : dirs[n] # "KeyboardInterrupt"
               /\ Returned

C28_Witness ==
    /\ pc = "returned"
    /\ parse_frame.dirs = <<"Exception", "file", "truthy">>
    /\ parse_frame.fail = <<1>>
    /\ parse_frame.called = <<1, 3>>
    /\ ret = Some(<<3>>)

====
